---- MODULE Spec2Model ----
(***************************************************************************)
(* django-detour: the redirect table (django_detour/redirects.py) and the  *)
(* 404-fallback middleware (django_detour/middleware.py).                  *)
(*                                                                         *)
(* Text.  A Python string that holds a URL is the record                   *)
(*     [netloc |-> n, path |-> p]                                          *)
(* where n is the network location ("" when the text has none) and p is    *)
(* the sequence of characters after it (path, params, query, fragment).    *)
(* The text "/a" is [netloc |-> "", path |-> <<"/","a">>], the text        *)
(* "http://e.com/a" is [netloc |-> "e.com", path |-> <<"/","a">>] and the  *)
(* empty text is [netloc |-> "", path |-> <<>>].  Two texts are equal iff  *)
(* their records are.  The modelled texts carry no white space and at      *)
(* most one scheme.  A status_code column is the sequence of its digits.   *)
(*                                                                         *)
(* Runtime.  The model follows the Python 2 runtime both modules are       *)
(* written for: dict and set iteration orders are arbitrary, and they are  *)
(* chosen nondeterministically by the actions that iterate.                *)
(***************************************************************************)
EXTENDS Integers, Sequences, FiniteSets, TLC

VARIABLES
    APPEND_SLASH,   \* settings.APPEND_SLASH
    table,          \* the RedirectMap: domain -> path -> Redirect
    errors,         \* RedirectMap._errors: NoErrors (None) or a sequence of messages
    raised,         \* the last call on the RedirectMap ended in an exception
    nlines,         \* rows read so far from the file being loaded (the next lineno)
    call,           \* the last call made on the RedirectMap, with its arguments
    ret,            \* what that call returned
    lines,          \* middleware: the rows handed to preprocess_redirects
    mw,             \* middleware: what preprocess_redirects left behind
    response        \* middleware: what process_response handed back

vars == <<APPEND_SLASH, table, errors, raised, nlines, call, ret, lines, mw, response>>
mapVars == <<table, errors, raised, nlines, call, ret>>
mwVars == <<lines, mw, response>>

(***************************************************************************)
(* Bounds of the model.                                                    *)
(***************************************************************************)
MaxRules == 2       \* add_redirect calls on one RedirectMap
MaxLines == 2       \* rows handed to preprocess_redirects

(***************************************************************************)
(* Program constants.                                                      *)
(***************************************************************************)
ALL_DOMAINS == "__all__"
GONE == 410
FOUND == 302
MOVED_PERMANENTLY == 301
SEE_OTHER == 303
TEMPORARY_REDIRECT == 307
NOT_FOUND == 404
VALID_STATUS_CODES == {MOVED_PERMANENTLY, FOUND, SEE_OTHER, TEMPORARY_REDIRECT, GONE}
REDIRECT_CODES == {MOVED_PERMANENTLY, FOUND, SEE_OTHER, TEMPORARY_REDIRECT}

(***************************************************************************)
(* Python values.                                                          *)
(***************************************************************************)
Text(netloc, path) == [netloc |-> netloc, path |-> path]
EmptyText == Text("", <<>>)
\* None where a domain is expected (get_redirect's default argument).
None == "None"
\* None where a Redirect is expected (dict.get on a missing key).
NoRedirect == [lineno |-> -1, fname |-> "", target |-> EmptyText, status_code |-> 0]
\* None where the list RedirectMap._errors is expected.
NoErrors == <<[kind |-> "None", trail |-> <<>>]>>
EmptyDict == <<>>

Redirect(lineno, fname, target, status_code) ==
    [lineno |-> lineno, fname |-> fname, target |-> target, status_code |-> status_code]

DictGet(d, k, default) == IF k \in DOMAIN d THEN d[k] ELSE default
DictSet(d, k, v) == [x \in (DOMAIN d) \cup {k} |-> IF x = k THEN v ELSE d[x]]

\* bool(s) of a text: the empty text is falsy.
Truthy(s) == s # EmptyText

\* s.endswith('/')
EndsWithSlash(s) == Len(s.path) > 0 /\ s.path[Len(s.path)] = "/"

append_slash(s) == IF ~EndsWithSlash(s) THEN [s EXCEPT !.path = Append(@, "/")] ELSE s

\* split_url(url) = (domain, full_path); full_path is a text without netloc.
split_url(url) ==
    [domain |-> IF url.netloc = "" THEN ALL_DOMAINS ELSE url.netloc,
     path |-> Text("", url.path)]

\* int(status_code) of a sequence of decimal digits.
RECURSIVE int(_)
int(digits) ==
    IF digits = <<>> THEN 0
    ELSE 10 * int(SubSeq(digits, 1, Len(digits) - 1)) + digits[Len(digits)]

is_redirect(r) == r.status_code \in REDIRECT_CODES

\* Redirect.target_set, as the set it is.
target_set(r) ==
    {r.target} \cup (IF APPEND_SLASH THEN {append_slash(r.target)} ELSE {})

\* Redirect.target_set in the order a loop iterates it: slashFirst holds the targets
\* whose slashed variant comes first in that order.
TargetSeq(r, slashFirst) ==
    LET t == r.target
        s == append_slash(r.target)
    IN IF s \notin target_set(r) \/ s = t THEN <<t>>
       ELSE IF t \in slashFirst THEN <<s, t>> ELSE <<t, s>>

(***************************************************************************)
(* RedirectMap.get_redirect                                                *)
(***************************************************************************)
get_redirect_no_fallback(self, path, domain) ==
    LET d == IF domain = None THEN ALL_DOMAINS ELSE domain
    IN DictGet(DictGet(self, d, EmptyDict), path, NoRedirect)

get_redirect(self, path, domain) ==
    LET d == IF domain = None THEN ALL_DOMAINS ELSE domain
        redirect == DictGet(DictGet(self, d, EmptyDict), path, NoRedirect)
    IN IF redirect = NoRedirect
       THEN DictGet(DictGet(self, ALL_DOMAINS, EmptyDict), path, NoRedirect)
       ELSE redirect

(***************************************************************************)
(* RedirectMap.add_redirect                                                *)
(***************************************************************************)
add_status_default_found(target, status_code) ==
    IF status_code = <<>> THEN FOUND ELSE int(status_code)

add_status(target, status_code) ==
    IF status_code = <<>>
    THEN IF ~Truthy(target) THEN GONE ELSE FOUND
    ELSE int(status_code)

add_redirect(self, fname, lineno, source, target, status_code) ==
    LET sp == split_url(source)
        buckets == IF sp.domain \in DOMAIN self THEN self ELSE DictSet(self, sp.domain, EmptyDict)
    IN DictSet(buckets, sp.domain,
               DictSet(buckets[sp.domain], sp.path,
                       Redirect(lineno, fname, target, add_status(target, status_code))))

(***************************************************************************)
(* RedirectMap.clean_circular                                              *)
(***************************************************************************)
Targets(trail) == {trail[i].target : i \in DOMAIN trail}

\* get_circular(trail), from the i-th target of trail[-1].target_set on.
\* kind "trail": the list returned; "none": the loop ended and nothing was
\* returned; "raise": new_dest was None and new_dest.target raised AttributeError.
RECURSIVE get_circular(_, _, _, _)
get_circular(self, trail, i, slashFirst) ==
    LET visited == Targets(trail)
        start == trail[Len(trail)]
        dests == TargetSeq(start, slashFirst)
    IN IF i > Len(dests) THEN [kind |-> "none", trail |-> <<>>]
       ELSE LET sp == split_url(dests[i])
                new_dest == get_redirect(self, sp.path, sp.domain)
            IN IF new_dest = NoRedirect THEN [kind |-> "raise", trail |-> <<>>]
               ELSE IF new_dest.target \in visited THEN [kind |-> "trail", trail |-> trail]
               ELSE LET res == get_circular(self, Append(trail, new_dest), 1, slashFirst)
                    IN IF res.kind # "none" THEN res
                       ELSE get_circular(self, trail, i + 1, slashFirst)

\* The elements one popped element adds to to_visit (lines 162-166).
Expand(self, elem, slashFirst) ==
    LET sp == split_url(elem)
    IN IF sp.domain \in DOMAIN self
       THEN LET new_dest == get_redirect(self, sp.path, sp.domain)
            IN IF new_dest # NoRedirect /\ is_redirect(new_dest)
               THEN TargetSeq(new_dest, slashFirst)
               ELSE <<>>
       ELSE <<>>

\* The while loop of lines 157-177: TRUE when an element already visited is
\* popped (the else branch runs), FALSE when to_visit drains.
RECURSIVE Revisits(_, _, _, _)
Revisits(self, to_visit, visited, slashFirst) ==
    IF to_visit = <<>> THEN FALSE
    ELSE LET elem == Head(to_visit)
         IN IF elem \notin visited
            THEN Revisits(self, Tail(to_visit) \o Expand(self, elem, slashFirst),
                          visited \cup {elem}, slashFirst)
            ELSE TRUE

\* '{r.target} ({r.fname}:{r.lineno})' joined by ' -> ': the message keeps its parts.
CircularMessage(circular) ==
    [kind |-> "circular",
     trail |-> [i \in DOMAIN circular |->
                   <<circular[i].target, circular[i].fname, circular[i].lineno>>]]

\* The two for loops of lines 148-177 over the (domain, source) pairs in the
\* order `order`, from position i on.
RECURSIVE CleanFrom(_, _, _, _, _, _)
CleanFrom(self, order, i, part_of_circular, errs, slashFirst) ==
    IF i > Len(order) THEN [errors |-> errs, raised |-> FALSE]
    ELSE LET source == order[i][2]
             dest == self[order[i][1]][source]
         IN IF source \in part_of_circular
            THEN CleanFrom(self, order, i + 1, part_of_circular, errs, slashFirst)
            ELSE IF ~Revisits(self, TargetSeq(dest, slashFirst), {}, slashFirst)
            THEN CleanFrom(self, order, i + 1, part_of_circular, errs, slashFirst)
            ELSE LET circular == get_circular(self, <<dest>>, 1, slashFirst)
                 IN IF circular.kind # "trail"
                    THEN [errors |-> errs, raised |-> TRUE]
                    ELSE CleanFrom(self, order, i + 1,
                                   part_of_circular \cup Targets(circular.trail),
                                   Append(errs, CircularMessage(circular.trail)),
                                   slashFirst)

clean_circular(self, order, slashFirst) == CleanFrom(self, order, 1, {}, <<>>, slashFirst)

\* The (domain, source) pairs of the table.
Keys(self) ==
    {k \in (DOMAIN self) \X UNION {DOMAIN self[x] : x \in DOMAIN self} :
        k[2] \in DOMAIN self[k[1]]}

\* The orders six.iteritems can walk the table in: domain by domain, the
\* domains and the paths of one domain in any order.
IterationOrders(self) ==
    LET K == Keys(self)
        n == Cardinality(K)
    IN {o \in [1..n -> K] :
          /\ \A i, j \in 1..n : i # j => o[i] # o[j]
          /\ \A i, j, k \in 1..n : (i < j /\ j < k /\ o[i][1] = o[k][1]) => o[j][1] = o[i][1]}

\* The targets whose target_set has two members.
TwoFormed(self) ==
    {self[k[1]][k[2]].target : k \in {x \in Keys(self) :
        Cardinality(target_set(self[x[1]][x[2]])) = 2}}

(***************************************************************************)
(* The inputs the model draws from.                                        *)
(***************************************************************************)
PathA == <<"/", "a">>
PathASlash == <<"/", "a", "/">>
PathB == <<"/", "b">>
FileName == "redirects.csv"
Sources == {Text("", PathA), Text("", PathASlash), Text("", PathB), Text("e.com", PathA)}
TargetInputs == {EmptyText, Text("", PathA), Text("", PathB), Text("e.com", PathA)}
StatusInputs == {<<>>, <<3, 0, 1>>, <<4, 1, 0>>, <<9, 9, 9>>}
QueryPaths == {Text("", PathA), Text("", PathB)}
QueryDomains == {None, "e.com", "f.org"}

NoCall == [op |-> "new", source |-> EmptyText, target |-> EmptyText, status_code |-> <<>>,
           path |-> EmptyText, domain |-> None]
NoReturn == [redirect |-> NoRedirect, errors |-> <<>>, is_valid |-> FALSE]

\* The middleware before RedirectFallbackMiddleware.__init__ has run.
NewMiddleware ==
    [state |-> "new", exception |-> "", redirects |-> EmptyDict,
     error_messages |-> EmptyDict, warning_messages |-> EmptyDict]
\* No request handled yet.
NoExchange ==
    [state |-> "none", path |-> <<>>, host |-> "", site_domain |-> "",
     original |-> [status_code |-> 0, Location |-> Text("None", <<>>)],
     returned |-> [status_code |-> 0, Location |-> Text("None", <<>>)]]

(***************************************************************************)
(* The RedirectMap as a state machine.                                     *)
(***************************************************************************)
InitMap ==
    /\ table = EmptyDict
    /\ errors = NoErrors
    /\ raised = FALSE
    /\ nlines = 0
    /\ call = NoCall
    /\ ret = NoReturn

InitMw ==
    /\ lines = <<>>
    /\ mw = NewMiddleware
    /\ response = NoExchange

Init ==
    /\ APPEND_SLASH \in BOOLEAN
    /\ InitMap
    /\ InitMw

\* One row of the file: load_redirects' call of add_redirect (lines 103-123).
AddRedirect(source, target, status_code) ==
    /\ nlines < MaxRules
    /\ table' = add_redirect(table, FileName, nlines, source, target, status_code)
    /\ nlines' = nlines + 1
    /\ call' = [NoCall EXCEPT !.op = "add_redirect", !.source = source,
                              !.target = target, !.status_code = status_code]
    /\ ret' = NoReturn
    /\ raised' = FALSE
    /\ UNCHANGED <<APPEND_SLASH, errors, mwVars>>

\* RedirectMap.is_valid(): the errors property, full_clean on the first read,
\* clean_circular in one of the orders the dicts and sets can iterate in.
IsValid ==
    /\ call' = [NoCall EXCEPT !.op = "is_valid"]
    /\ IF errors = NoErrors
       THEN \E order \in IterationOrders(table), slashFirst \in SUBSET TwoFormed(table) :
              LET res == clean_circular(table, order, slashFirst)
              IN /\ errors' = res.errors
                 /\ raised' = res.raised
                 /\ ret' = IF res.raised THEN NoReturn
                           ELSE [NoReturn EXCEPT !.errors = res.errors,
                                                 !.is_valid = (res.errors = <<>>)]
       ELSE /\ errors' = errors
            /\ raised' = FALSE
            /\ ret' = [NoReturn EXCEPT !.errors = errors, !.is_valid = (errors = <<>>)]
    /\ UNCHANGED <<APPEND_SLASH, table, nlines, mwVars>>

\* RedirectMap.get_redirect(path, domain)
GetRedirect(path, domain) ==
    /\ call' = [NoCall EXCEPT !.op = "get_redirect", !.path = path, !.domain = domain]
    /\ ret' = [NoReturn EXCEPT !.redirect = get_redirect(table, path, domain)]
    /\ raised' = FALSE
    /\ UNCHANGED <<APPEND_SLASH, table, errors, nlines, mwVars>>

Next ==
    \/ \E source \in Sources, target \in TargetInputs, status_code \in StatusInputs :
          AddRedirect(source, target, status_code)
    \/ IsValid

Spec == Init /\ [][Next]_vars

(***************************************************************************)
(* Redirect.full_clean / errors / is_valid (redirects.py)                  *)
(***************************************************************************)
\* Redirect.errors on its first read: full_clean sets _errors to [] and, for a
\* status code outside VALID_STATUS_CODES, evaluates
\* _("Invalid status code {status_code}").format(self.status_code), which raises
\* KeyError before anything is appended.
Redirect_errors(r) ==
    [errors |-> <<>>, raised |-> r.status_code \notin VALID_STATUS_CODES]

\* Redirect.is_valid(): return bool(self.errors)
Redirect_is_valid(r) ==
    [value |-> Redirect_errors(r).errors # <<>>, raised |-> Redirect_errors(r).raised]

(***************************************************************************)
(* The redirect graph the claims speak of: what a client following the     *)
(* rules goes through.  Not part of the program.                           *)
(***************************************************************************)
Rule(k) == table[k[1]][k[2]]

\* The pair get_redirect(path, domain) finds its rule under, <<>> when none.
Resolve(path, domain) ==
    IF <<domain, path>> \in Keys(table) THEN <<domain, path>>
    ELSE IF <<ALL_DOMAINS, path>> \in Keys(table) THEN <<ALL_DOMAINS, path>>
    ELSE <<>>

\* The domain a target is served in: its own network location, else the domain
\* the rule was declared under.
ServingDomain(k, t) == IF t.netloc # "" THEN t.netloc ELSE k[1]

\* k1's rule redirects and one of its target forms resolves to the redirecting rule k2.
Edge(k1, k2) ==
    /\ is_redirect(Rule(k1))
    /\ is_redirect(Rule(k2))
    /\ \E t \in target_set(Rule(k1)) : Resolve(Text("", t.path), ServingDomain(k1, t)) = k2

\* An edge that only exists if the deployment serves the target's domain: a
\* host-less source whose target carries a network location.
CrossDomain(k1, k2) ==
    /\ Edge(k1, k2)
    /\ k1[1] = ALL_DOMAINS
    /\ \A t \in target_set(Rule(k1)) :
          Resolve(Text("", t.path), ServingDomain(k1, t)) = k2 => t.netloc # ""

RECURSIVE ReachVia(_, _, _)
ReachVia(E(_, _), frontier, seen) ==
    LET next == {k \in Keys(table) : \E f \in frontier : E(f, k)} \ seen
    IN IF next = {} THEN seen ELSE ReachVia(E, next, seen \cup next)

OnCycle(k) == k \in ReachVia(Edge, {k}, {})
CycleKeys == {k \in Keys(table) : OnCycle(k)}
HasCycle == CycleKeys # {}

ConfirmedEdge(k1, k2) == Edge(k1, k2) /\ ~CrossDomain(k1, k2)
HasConfirmedCycle == \E k \in Keys(table) : k \in ReachVia(ConfirmedEdge, {k}, {})
HasCrossDomainChain == \E k1, k2 \in Keys(table) : CrossDomain(k1, k2)

\* One simple cycle: every rule on a cycle reaches every other and has one
\* successor on it.
OneCycle ==
    /\ HasCycle
    /\ \A k1, k2 \in CycleKeys : k2 \in ReachVia(Edge, {k1}, {})
    /\ \A k \in CycleKeys : Cardinality({n \in CycleKeys : Edge(k, n)}) = 1

Validated == call.op = "is_valid"
DuplicateDeclarations == nlines - Cardinality(Keys(table))
DuplicateWarnings ==
    IF errors = NoErrors THEN 0
    ELSE Cardinality({i \in DOMAIN errors : errors[i].kind = "duplicate"})
InvalidRules == {k \in Keys(table) : Rule(k).status_code \notin VALID_STATUS_CODES}

(***************************************************************************)
(* Claims about RedirectMap validation, checked under Spec.                *)
(***************************************************************************)

\* C2: whenever the loaded table holds a cycle of redirecting rules (followed
\* through target_set in the rule's serving domain), is_valid(), when it
\* returns, returns false and errors is non-empty.
C2_CycleDetectionComplete ==
    (Validated /\ ~raised /\ HasCycle) => (ret.is_valid = FALSE /\ Len(errors) > 0)

\* C3: a table holding one cycle, once that cycle is reported, holds exactly
\* one circular-redirect diagnostic, whatever the iteration order and whatever
\* rules lead into the cycle.
C3_CycleReportedOnce ==
    (Validated /\ ~raised /\ OneCycle /\ errors # <<>>) => Len(errors) = 1

\* C5: k declarations of one (domain, path) leave k-1 duplicate-declaration
\* warnings, and declarations of different keys leave none.
C5_DuplicateWarned ==
    DuplicateWarnings = DuplicateDeclarations

\* C6: a rule has errors iff its status code is outside {301,302,303,307,410},
\* is_valid() is true iff it has none, and a table holding a rule with a status
\* code outside the set is not valid.
C6_StatusCodeValidated ==
    /\ \A k \in Keys(table) :
          /\ ~Redirect_errors(Rule(k)).raised
          /\ Redirect_errors(Rule(k)).errors # <<>> <=> k \in InvalidRules
          /\ Redirect_is_valid(Rule(k)).value <=> Redirect_errors(Rule(k)).errors = <<>>
    /\ (Validated /\ ~raised /\ InvalidRules # {}) => (ret.is_valid = FALSE /\ errors # <<>>)

\* C7: reading errors / is_valid() never raises.
C7_ValidationNeverRaises ==
    ~raised

\* C9: a chain that crosses from a host-less source to a target with a network
\* location does not by itself make the table invalid.
C9_CrossDomainOnlyWarns ==
    (Validated /\ ~raised /\ HasCrossDomainChain /\ ~HasConfirmedCycle) => ret.is_valid = TRUE

(***************************************************************************)
(* Loading and looking up, checked under SpecLookup.                       *)
(***************************************************************************)
LookupTargets == {EmptyText, Text("", PathB)}
LookupStatus == {<<>>, <<3, 0, 1>>, <<9, 9, 9>>}

NextLookup ==
    \/ \E source \in Sources, target \in LookupTargets, status_code \in LookupStatus :
          AddRedirect(source, target, status_code)
    \/ \E path \in QueryPaths, domain \in QueryDomains : GetRedirect(path, domain)

SpecLookup == Init /\ [][NextLookup]_vars

\* The domain a request for `source` arrives with: its host, None without one.
RequestDomain(source) == IF source.netloc = "" THEN None ELSE source.netloc

\* C1: get_redirect(path, domain) returns the rule stored under (domain, path)
\* if there is one, else the rule stored under ('__all__', path) if there is
\* one, else None; None as domain is the wildcard domain; a rule of another
\* specific domain is never returned.
C1_LookupFallback ==
    call.op = "get_redirect" =>
        LET d == IF call.domain = None THEN ALL_DOMAINS ELSE call.domain
            specific == <<d, call.path>>
            wildcard == <<ALL_DOMAINS, call.path>>
        IN /\ specific \in Keys(table) => ret.redirect = Rule(specific)
           /\ (specific \notin Keys(table) /\ wildcard \in Keys(table)) =>
                  ret.redirect = Rule(wildcard)
           /\ (specific \notin Keys(table) /\ wildcard \notin Keys(table)) =>
                  ret.redirect = NoRedirect
           /\ \A k \in Keys(table) :
                  (k[1] \notin {d, ALL_DOMAINS} \/ k[2] # call.path) => ret.redirect # Rule(k)
           /\ ~raised

\* A lookup in a domain that has no rule of its own for the path fell back to
\* the wildcard rule, while another path of that domain has a rule.
C1_Witness ==
    /\ call.op = "get_redirect"
    /\ call.domain = "e.com"
    /\ "e.com" \in DOMAIN table
    /\ <<"e.com", call.path>> \notin Keys(table)
    /\ <<ALL_DOMAINS, call.path>> \in Keys(table)
    /\ ret.redirect = table[ALL_DOMAINS][call.path]

\* C8: after add_redirect(source, target, status_code) the lookup of the
\* source's path in the source's domain returns a rule with that target whose
\* status code is 410 when target and status_code are both empty, 302 when
\* only status_code is empty, else the number status_code spells; a lone rule
\* /a,/b,301 leaves the table valid.
C8_LoadLookupRoundTrip ==
    call.op = "add_redirect" =>
        LET sp == split_url(call.source)
            r == get_redirect(table, sp.path, RequestDomain(call.source))
        IN /\ r # NoRedirect
           /\ r.target = call.target
           /\ (call.status_code = <<>> /\ call.target = EmptyText) => r.status_code = 410
           /\ (call.status_code = <<>> /\ call.target # EmptyText) => r.status_code = 302
           /\ call.status_code = <<3, 0, 1>> => r.status_code = 301
           /\ call.status_code = <<9, 9, 9>> => r.status_code = 999
           /\ (/\ nlines = 1
               /\ call.source = Text("", PathA)
               /\ call.target = Text("", PathB)
               /\ call.status_code = <<3, 0, 1>>) =>
                  \A order \in IterationOrders(table), slashFirst \in SUBSET TwoFormed(table) :
                      clean_circular(table, order, slashFirst) = [errors |-> <<>>, raised |-> FALSE]

\* The row /a,, was loaded and is looked up as a 410 without target.
C8_Witness ==
    /\ call.op = "add_redirect"
    /\ call.source = Text("", PathA)
    /\ call.target = EmptyText
    /\ call.status_code = <<>>
    /\ get_redirect(table, Text("", PathA), None).status_code = 410
    /\ get_redirect(table, Text("", PathA), None).target = EmptyText

(***************************************************************************)
(* middleware.py: Redirect, preprocess_redirects, get_redirect and         *)
(* RedirectFallbackMiddleware.                                             *)
(***************************************************************************)
\* None where a Location header value is expected.
NoLocation == Text(None, <<>>)
NoResponse == [status_code |-> 0, Location |-> NoLocation]
HttpResponse(status_code, location) == [status_code |-> status_code, Location |-> location]

\* django.utils.encoding.iri_to_uri: a character outside ASCII becomes the
\* percent-escapes of its UTF-8 bytes, everything else (the percent sign
\* included) is kept.
RECURSIVE iri_quote(_)
iri_quote(chars) ==
    IF chars = <<>> THEN <<>>
    ELSE (IF Head(chars) = "e-acute" THEN <<"%", "C", "3", "%", "A", "9">> ELSE <<Head(chars)>>)
         \o iri_quote(Tail(chars))

iri_to_uri(iri) == Text(iri.netloc, iri_quote(iri.path))

\* urlparse.urljoin(base, path) for an empty path or one that starts with "/".
urljoin(base, path) == IF path = <<>> THEN base ELSE Text(base.netloc, path)

\* Redirect.__init__ of middleware.py (the texts carry no white space to strip).
MwRedirect(line) ==
    [source |-> line.source,
     target |-> line.target,
     domain |-> line.domain,
     status_code |-> IF Truthy(line.target)
                     THEN (IF line.status_code = <<>> THEN MOVED_PERMANENTLY
                           ELSE int(line.status_code))
                     ELSE GONE,
     filename |-> line.filename,
     line_number |-> line.line_number]

\* Redirect.validate: TRUE when it reaches add_error, which indexes the plain
\* dict validate has just put in _errors and raises KeyError.
MwValidateRaises(r) ==
    r.status_code < 300 \/ (r.status_code > 399 /\ ~(r.status_code = GONE))

Message(kind, r) ==
    [kind |-> kind, source |-> r.source, target |-> r.target,
     filename |-> r.filename, line_number |-> r.line_number]

\* validate_redirect(redirect, with_slash): the messages it appends for
\* redirect.source, errors and warnings.
validate_redirect(processed, r, with_slash) ==
    LET path == r.target.path
        slashed == Len(path) > 0 /\ path[Len(path)] = "/"
        to_path == IF with_slash THEN Append(path, "/") ELSE path
        nothing == [errors |-> <<>>, warnings |-> <<>>]
    IN IF with_slash /\ slashed THEN nothing
       ELSE IF r.target \in DOMAIN processed \/ r.target = Text("", r.source.path)
       THEN [nothing EXCEPT !.errors = <<Message("circular", r)>>]
       ELSE IF urljoin(r.source, to_path) \in DOMAIN processed /\ ~(r.status_code = GONE)
       THEN IF r.target.netloc = ""
            THEN [nothing EXCEPT !.errors = <<Message("circular", r)>>]
            ELSE IF r.target.netloc # "" /\ r.source.netloc = ""
            THEN [nothing EXCEPT !.warnings = <<Message("possible", r)>>]
            ELSE nothing
       ELSE nothing

\* The first loop of preprocess_redirects (lines 117-131) from row i on.
RECURSIVE ProcessLines(_, _, _, _)
ProcessLines(rows, i, processed, warning_messages) ==
    IF i > Len(rows)
    THEN [raised |-> FALSE, processed |-> processed, warning_messages |-> warning_messages]
    ELSE LET redirect == MwRedirect(rows[i])
             src == redirect.source
         IN IF MwValidateRaises(redirect)
            THEN [raised |-> TRUE, processed |-> processed,
                  warning_messages |-> warning_messages]
            ELSE ProcessLines(rows, i + 1, DictSet(processed, src, redirect),
                    IF src \in DOMAIN processed
                    THEN DictSet(warning_messages, src,
                                 Append(DictGet(warning_messages, src, <<>>),
                                        Message("duplicate", redirect)))
                    ELSE warning_messages)

\* preprocess_redirects(lines, raise_errors)
preprocess_redirects(rows, raise_errors) ==
    LET first == ProcessLines(rows, 1, EmptyDict, EmptyDict)
        processed == first.processed
        checked == [src \in DOMAIN processed |->
                      LET plain == validate_redirect(processed, processed[src], FALSE)
                          slash == IF APPEND_SLASH
                                   THEN validate_redirect(processed, processed[src], TRUE)
                                   ELSE [errors |-> <<>>, warnings |-> <<>>]
                      IN [errors |-> plain.errors \o slash.errors,
                          warnings |-> plain.warnings \o slash.warnings]]
        error_messages == [src \in {x \in DOMAIN processed : checked[x].errors # <<>>} |->
                              checked[src].errors]
        warning_messages ==
            [src \in (DOMAIN first.warning_messages)
                       \cup {x \in DOMAIN processed : checked[x].warnings # <<>>} |->
                DictGet(first.warning_messages, src, <<>>)
                    \o (IF src \in DOMAIN processed THEN checked[src].warnings ELSE <<>>)]
    IN IF first.raised
       THEN [state |-> "raised", exception |-> "KeyError", redirects |-> first.processed,
             error_messages |-> EmptyDict, warning_messages |-> first.warning_messages]
       ELSE IF error_messages # EmptyDict /\ raise_errors
       THEN [state |-> "raised", exception |-> "ImproperlyConfigured",
             redirects |-> processed, error_messages |-> error_messages,
             warning_messages |-> warning_messages]
       ELSE [state |-> "ready", exception |-> "", redirects |-> processed,
             error_messages |-> error_messages, warning_messages |-> warning_messages]

\* get_redirect(redirects, path, full_uri) of middleware.py
mw_get_redirect_path_first(redirects, path, full_uri) ==
    LET chosen == IF path \in DOMAIN redirects THEN redirects[path]
                  ELSE IF iri_to_uri(path) \in DOMAIN redirects THEN redirects[iri_to_uri(path)]
                  ELSE redirects[full_uri]
    IN IF full_uri \notin DOMAIN redirects /\ iri_to_uri(path) \notin DOMAIN redirects
          /\ path \notin DOMAIN redirects
       THEN NoResponse
       ELSE HttpResponse(chosen.status_code,
                         IF Truthy(chosen.target) THEN chosen.target ELSE NoLocation)

mw_get_redirect(redirects, path, full_uri) ==
    IF full_uri \in DOMAIN redirects \/ iri_to_uri(path) \in DOMAIN redirects
       \/ path \in DOMAIN redirects
    THEN LET redirect == IF full_uri \in DOMAIN redirects THEN redirects[full_uri]
                         ELSE IF iri_to_uri(path) \in DOMAIN redirects
                         THEN redirects[iri_to_uri(path)]
                         ELSE redirects[path]
         IN HttpResponse(redirect.status_code,
                         IF Truthy(redirect.target) THEN redirect.target ELSE NoLocation)
    ELSE NoResponse

\* RedirectFallbackMiddleware.process_response
process_response(redirects, request, resp) ==
    IF resp.status_code # NOT_FOUND /\ request.site_domain = request.host
    THEN resp
    ELSE LET path == Text("", request.path)
             full_uri == Text(request.host, request.path)
             found == mw_get_redirect(redirects, path, full_uri)
         IN IF found # NoResponse THEN found ELSE resp

(***************************************************************************)
(* The middleware as a state machine.                                      *)
(***************************************************************************)
PathAccent == <<"/", "e-acute">>
PathQuoted == <<"/", "%", "C", "3", "%", "A", "9">>
MwSources == {Text("", PathA), Text("", PathAccent), Text("", PathQuoted), Text("e.com", PathA)}
MwTargets == {EmptyText, Text("", PathA), Text("e.com", PathA)}
MwStatus == {<<>>, <<9, 9, 9>>}
RequestPaths == {PathA, PathAccent}
Hosts == {"e.com"}
SiteDomains == {"e.com", "f.org"}
Originals == {HttpResponse(200, NoLocation), HttpResponse(NOT_FOUND, NoLocation)}

\* scrape_redirects yields one more row of the file.
ScrapeLine(source, target, status_code) ==
    /\ mw.state = "new"
    /\ Len(lines) < MaxLines
    /\ lines' = Append(lines, [source |-> source, target |-> target,
                               status_code |-> status_code, domain |-> None,
                               filename |-> FileName, line_number |-> Len(lines)])
    /\ UNCHANGED <<APPEND_SLASH, mapVars, mw, response>>

\* RedirectFallbackMiddleware.__init__(raise_errors=...)
Construct(raise_errors) ==
    /\ mw.state = "new"
    /\ lines # <<>>
    /\ mw' = preprocess_redirects(lines, raise_errors)
    /\ UNCHANGED <<APPEND_SLASH, mapVars, lines, response>>

\* RedirectFallbackMiddleware.process_response(request, response)
ProcessResponse(path, host, site_domain, original) ==
    /\ mw.state = "ready"
    /\ response' = [state |-> "done", path |-> path, host |-> host,
                    site_domain |-> site_domain, original |-> original,
                    returned |-> process_response(mw.redirects,
                                    [path |-> path, host |-> host, site_domain |-> site_domain],
                                    original)]
    /\ UNCHANGED <<APPEND_SLASH, mapVars, lines, mw>>

NextMw ==
    \/ \E source \in MwSources, target \in MwTargets, status_code \in MwStatus :
          ScrapeLine(source, target, status_code)
    \/ \E raise_errors \in BOOLEAN : Construct(raise_errors)
    \/ \E path \in RequestPaths, host \in Hosts, site_domain \in SiteDomains,
          original \in Originals : ProcessResponse(path, host, site_domain, original)

SpecMw == Init /\ [][NextMw]_vars

(***************************************************************************)
(* Claims about the middleware, checked under SpecMw.                      *)
(***************************************************************************)
Declared == DOMAIN mw.redirects
Preprocessed == mw.state = "ready" \/ (mw.state = "raised" /\ mw.exception = "ImproperlyConfigured")

\* The declared sources a client sent to r's target may be answered by: any
\* source with the target's path, or with its slashed form under APPEND_SLASH.
Follows(s, k) ==
    /\ ~(mw.redirects[s].status_code = GONE)
    /\ \/ k.path = mw.redirects[s].target.path
       \/ APPEND_SLASH /\ k.path = Append(mw.redirects[s].target.path, "/")

RECURSIVE MwReach(_, _)
MwReach(frontier, seen) ==
    LET next == {k \in Declared : \E f \in frontier : Follows(f, k)} \ seen
    IN IF next = {} THEN seen ELSE MwReach(next, seen \cup next)

\* Following targets from s never comes back to a source already visited.
EndsWithoutRevisit(s) ==
    /\ s \notin MwReach({s}, {})
    /\ \A k \in MwReach({s}, {}) : k \notin MwReach({k}, {})

CircularErrors(s) ==
    IF s \in DOMAIN mw.error_messages
    THEN {i \in DOMAIN mw.error_messages[s] : mw.error_messages[s][i].kind = "circular"}
    ELSE {}

\* C4: a rule whose chain ends in a 410 rule, or in a target without rule,
\* without coming back to a visited source gets no circular-redirect diagnostic.
C4_GoneChainNotCircular ==
    Preprocessed => \A s \in Declared : EndsWithoutRevisit(s) => CircularErrors(s) = {}

Answered == response.state = "done"
Invoked == Answered /\ ~(response.original.status_code # NOT_FOUND
                          /\ response.site_domain = response.host)
FullUri == Text(response.host, response.path)
RawPath == Text("", response.path)
Answer(r) == HttpResponse(r.status_code, IF r.target = EmptyText THEN NoLocation ELSE r.target)

\* C10 as stated: the rule keyed by full_uri wins, otherwise the rule keyed by
\* the path answers, otherwise the original response is handed back.
C10_PathKeyAnswers ==
    Invoked =>
        /\ FullUri \in Declared => response.returned = Answer(mw.redirects[FullUri])
        /\ (FullUri \notin Declared /\ RawPath \in Declared) =>
               response.returned = Answer(mw.redirects[RawPath])
        /\ (FullUri \notin Declared /\ RawPath \notin Declared) =>
               response.returned = response.original

\* C10 as amended: full_uri first, then iri_to_uri(path), then the path as
\* requested, else the original response; the answer carries the chosen rule's
\* status code, and its target as Location (None for an empty target); a
\* response that is not a 404 on the site's own host is handed back as it is.
C10_ResolverPrecedence ==
    Answered =>
        LET encoded == Text("", iri_quote(response.path))
        IN IF ~Invoked THEN response.returned = response.original
           ELSE /\ FullUri \in Declared => response.returned = Answer(mw.redirects[FullUri])
                /\ (FullUri \notin Declared /\ encoded \in Declared) =>
                       response.returned = Answer(mw.redirects[encoded])
                /\ (FullUri \notin Declared /\ encoded \notin Declared /\ RawPath \in Declared) =>
                       response.returned = Answer(mw.redirects[RawPath])
                /\ (FullUri \notin Declared /\ encoded \notin Declared
                    /\ RawPath \notin Declared) => response.returned = response.original

\* A request whose full URI and whose path both key a rule was answered from
\* the rule keyed by the full URI.
C10_Witness ==
    /\ Invoked
    /\ FullUri \in Declared
    /\ RawPath \in Declared
    /\ mw.redirects[FullUri].target # mw.redirects[RawPath].target
    /\ response.returned = Answer(mw.redirects[FullUri])

====
